---- MODULE Spec2Model ----
(***************************************************************************)
(* Model of the clip batch orchestrator of yp-video                        *)
(* (src/detect_volleyball.py): window planning, batched extraction,        *)
(* concurrent classification, result collection and checkpointing.        *)
(* Times are whole seconds.                                                *)
(***************************************************************************)
EXTENDS Integers, Sequences, FiniteSets, TLC

\* Bounds of the model.
MaxDuration == 3
MaxClip == 3
MaxSlide == 2
MaxBatch == 2

\* Bounds of the planner specification SpecPlan.
MaxPlanDuration == 8
MaxPlanClip == 5
MaxPlanSlide == 3

\* Bounds of the step-by-step planner specification SpecInput.
MaxInDuration == 4
MaxInClip == 3
MaxInSlide == 2
MaxPlanSteps == 4

\* Bounds of the fusion specification SpecFuse, in time units.
MaxFuseDuration == 4
MaxFuseClip == 2
MaxFuseSlide == 2
MaxFuseMinDuration == 2

\* Bounds of the specification SpecSmooth, in time units.
MaxSmoothDuration == 15
MaxSmoothSlide == 3
MaxSmoothMinDuration == 3

\* content[:100] in extract_json_from_response.
ExcerptLen == 100

VARIABLES
    total_duration,   \* get_video_duration(video_path)
    clip_duration,    \* parameter of process_video
    slide_interval,   \* parameter of process_video
    batch_size,       \* parameter of process_video
    output_file,      \* TRUE when an output file is configured
    pc,               \* position of process_video
    clip_specs,       \* planned (clip_index, start_time, end_time)
    batch_start,      \* loop variable of the batch loop (0-based)
    batch_pos,        \* number of clip_specs already handled by extraction
    batch_clips,      \* indices of the clips extracted for the current batch
    wstate,           \* per window: pending/extract_failed/extracted/inflight/settled
    completed,        \* indices of the current batch in completion order
    response,         \* per window: what its classification request settled with
    results,          \* the accumulated list of ClipResult
    results_idx,      \* the window index of each element of results
    file,             \* the checkpoint file on disk
    save_calls,       \* the lists passed to save_results so far
    disk,             \* indices of the clip files present in tmpdir
    error,            \* the exception process_video was left with, or "none"
    current_time,     \* loop variable of the planning loop
    clip_index,       \* loop variable of the planning loop
    clips,            \* the judgments handed to detect_rallies
    min_duration,     \* parameter of detect_rallies
    min_score,        \* parameter of detect_rallies, a fraction
    require_full_court, \* parameter of detect_rallies
    rallies,          \* what the last call of detect_rallies returned
    prev_rallies,     \* what the call before the last returned
    ann_file,         \* the lines of the rally annotation file
    ann_read,         \* what read_jsonl returned
    duration,         \* the duration convert_vlm_to_rally wrote
    locals            \* slot_times, raw_scores and smoothed of the last call

vars == <<total_duration, clip_duration, slide_interval, batch_size, output_file,
          pc, clip_specs, batch_start, batch_pos, batch_clips, wstate, completed,
          response, results, results_idx, file, save_calls, disk, error,
          current_time, clip_index, clips, min_duration, min_score,
          require_full_court, rallies, prev_rallies, ann_file, ann_read, duration,
          locals>>

\* The state of the planning loop taken step by step.
planning == <<current_time, clip_index>>

\* The state of the fusion of judgments into rally segments.
fusion == <<clips, min_duration, min_score, require_full_court, rallies,
            prev_rallies, ann_file, ann_read, duration, locals>>

\* The state of process_video after planning.
orchestrator == <<clip_specs, batch_start, batch_pos, batch_clips, wstate, completed,
                  response, results, results_idx, file, save_calls, disk, error>>

inputs == <<total_duration, clip_duration, slide_interval, batch_size, output_file>>

Min(a, b) == IF a <= b THEN a ELSE b

Max(a, b) == IF a >= b THEN a ELSE b

(***************************************************************************)
(* Window planning                                                         *)
(***************************************************************************)

ClipSpec(i, s, e) == [idx |-> i, start_time |-> s, end_time |-> e]

\* The while loop of the planner: the state after its last iteration.
RECURSIVE PlanLoop(_, _, _, _, _, _)
PlanLoop(T, c, s, time, index, specs) ==
    IF time + c <= T
    THEN PlanLoop(T, c, s, time + s, index + 1,
                  Append(specs, ClipSpec(index + 1, time, time + c)))
    ELSE [current_time |-> time, clip_index |-> index, clip_specs |-> specs]

\* FinalClip with "remaining >= slide_interval".
FinalClipAtLeast(T, c, s, st) ==
    LET remaining == T - st.current_time
    IN  IF remaining >= s
        THEN <<ClipSpec(st.clip_index + 1, Max(0, T - c), T)>>
        ELSE <<>>

\* FinalClip without the max(0, ...) of its start.
FinalClipUnclamped(T, c, s, st) ==
    LET remaining == T - st.current_time
    IN  IF remaining > s
        THEN <<ClipSpec(st.clip_index + 1, T - c, T)>>
        ELSE <<>>

\* The final partial clip appended after the loop.
FinalClip(T, c, s, st) ==
    LET remaining == T - st.current_time
    IN  IF remaining > s
        THEN <<ClipSpec(st.clip_index + 1, Max(0, T - c), T)>>
        ELSE <<>>

PlanWindows(T, c, s) ==
    LET st == PlanLoop(T, c, s, 0, 0, <<>>)
    IN  st.clip_specs \o FinalClip(T, c, s, st)

total_clips == Len(clip_specs)

batch_end == Min(batch_start + batch_size, total_clips)

(***************************************************************************)
(* Classifier responses                                                    *)
(***************************************************************************)

Desc(p, r, n) == [prefix |-> p, raw |-> r, len |-> n]

MissingDesc == Desc("", "<missing>", 0)

\* A JSON value as json.loads returns it; "missing" marks an absent key.
JsonObject(hv, conf, shot, d) ==
    [type |-> "dict", has_volleyball |-> hv, confidence |-> conf,
     shot_type |-> shot, description |-> d]

JsonOther(ty) ==
    [type |-> ty, has_volleyball |-> "missing", confidence |-> "missing",
     shot_type |-> "missing", description |-> MissingDesc]

\* The message content of a response with a success status: whether it is
\* wrapped in a fenced block, its text and length, and what the text inside
\* parses to ("invalid" when it is not JSON).
Content(f, r, n, b) == [status |-> "ok", fenced |-> f, raw |-> r, len |-> n, body |-> b]

ContentRally ==
    Content(FALSE, "rally", 90, JsonObject("true", "high", "full_court", Desc("", "rally", 5)))

ContentReplayFenced ==
    Content(TRUE, "replay", 120, JsonObject("false", "medium", "close_up", Desc("", "replay", 6)))

ContentEmptyObject ==
    Content(FALSE, "{}", 2, JsonObject("missing", "bogus", "missing", MissingDesc))

ContentGarbage == Content(FALSE, "garbage", 150, JsonOther("invalid"))

ContentFencedGarbage == Content(TRUE, "fenced garbage", 40, JsonOther("invalid"))

ContentList == Content(FALSE, "[1, 2]", 6, JsonOther("list"))

Contents ==
    {ContentRally, ContentReplayFenced, ContentEmptyObject, ContentGarbage,
     ContentFencedGarbage, ContentList}

\* A request that raised: network error, timeout, non-success status.
TransportError == [status |-> "error", fenced |-> FALSE, raw |-> "", len |-> 0,
                   body |-> JsonOther("invalid")]

NoResponse == [status |-> "none", fenced |-> FALSE, raw |-> "", len |-> 0,
               body |-> JsonOther("invalid")]

Settlements == Contents \cup {TransportError}

extract_json_from_response(content) ==
    LET json_str == content.body   \* the fenced block's inside, or the whole text
    IN  IF json_str.type = "invalid"
        THEN JsonObject("false", "Confidence.LOW", "ShotType.CLOSE_UP",
                        Desc("Failed to parse response: ", content.raw,
                             Min(content.len, ExcerptLen)))
        ELSE json_str

\* dict.get(key, default) on a parsed object.
DictGet(d, key, default) == IF d[key] = "missing" THEN default ELSE d[key]

parse_confidence(value) ==
    IF value \in {"Confidence.HIGH", "Confidence.MEDIUM", "Confidence.LOW"} THEN value
    ELSE IF value = "high" THEN "Confidence.HIGH"
    ELSE IF value = "medium" THEN "Confidence.MEDIUM"
    ELSE "Confidence.LOW"

parse_shot_type(value) ==
    IF value \in {"ShotType.FULL_COURT", "ShotType.CLOSE_UP"} THEN value
    ELSE IF value = "close_up" THEN "ShotType.CLOSE_UP"
    ELSE "ShotType.FULL_COURT"

\* Enum.value
EnumValue(member) ==
    CASE member = "Confidence.HIGH" -> "high"
      [] member = "Confidence.MEDIUM" -> "medium"
      [] member = "Confidence.LOW" -> "low"
      [] member = "ShotType.FULL_COURT" -> "full_court"
      [] member = "ShotType.CLOSE_UP" -> "close_up"

\* ClipResult(...) as process_batch_async builds it from a parsed object.
ClipResult(spec, result) ==
    [start_time |-> spec.start_time,
     end_time |-> spec.end_time,
     has_volleyball |-> (DictGet(result, "has_volleyball", "false") = "true"),
     confidence |-> parse_confidence(DictGet(result, "confidence", "low")),
     shot_type |-> parse_shot_type(DictGet(result, "shot_type", "full_court")),
     description |-> IF result.description = MissingDesc THEN Desc("", "", 0)
                     ELSE result.description]

\* One element of "results" in the checkpoint written by save_results.
JsonRecord(r) ==
    [start_time |-> r.start_time,
     end_time |-> r.end_time,
     has_volleyball |-> r.has_volleyball,
     confidence |-> EnumValue(r.confidence),
     shot_type |-> EnumValue(r.shot_type),
     description |-> r.description]

Serialize(rs) == [k \in 1..Len(rs) |-> JsonRecord(rs[k])]

(***************************************************************************)
(* process_video                                                           *)
(***************************************************************************)

NoFile == [state |-> "absent", data |-> <<>>]

\* The planning loop has not been entered step by step.
NoPlanning ==
    /\ current_time = 0
    /\ clip_index = 0

\* No call of detect_rallies has been made, or the call returned before the slots were built.
NoLocals == [slot_times |-> <<>>, raw_scores |-> <<>>, smoothed |-> <<>>]

\* No judgments have been handed to the fusion.
NoFusion ==
    /\ clips = <<>>
    /\ min_duration = 0
    /\ min_score = [num |-> 0, den |-> 1]
    /\ require_full_court = TRUE
    /\ rallies = <<>>
    /\ prev_rallies = <<>>
    /\ ann_file = <<>>
    /\ ann_read = "none"
    /\ duration = 0
    /\ locals = NoLocals

Init ==
    /\ total_duration \in 1..MaxDuration
    /\ clip_duration \in 1..MaxClip
    /\ slide_interval \in 1..MaxSlide
    /\ batch_size \in 1..MaxBatch
    /\ output_file \in BOOLEAN
    /\ pc = "plan"
    /\ clip_specs = <<>>
    /\ batch_start = 0
    /\ batch_pos = 0
    /\ batch_clips = <<>>
    /\ wstate = <<>>
    /\ completed = <<>>
    /\ response = <<>>
    /\ results = <<>>
    /\ results_idx = <<>>
    /\ file = NoFile
    /\ save_calls = <<>>
    /\ disk = {}
    /\ error = "none"
    /\ NoPlanning
    /\ NoFusion

\* Build the list of all clip specs.
PlanClips ==
    /\ pc = "plan"
    /\ clip_specs' = PlanWindows(total_duration, clip_duration, slide_interval)
    /\ wstate' = [i \in 1..Len(clip_specs') |-> "pending"]
    /\ response' = [i \in 1..Len(clip_specs') |-> NoResponse]
    /\ pc' = "loop"
    /\ UNCHANGED <<planning, fusion, inputs, batch_start, batch_pos, batch_clips, completed, results,
                   results_idx, file, save_calls, disk, error>>

\* The head of the batch loop: the next batch's specs are sliced.
BeginBatch ==
    /\ pc = "loop"
    /\ batch_start < total_clips
    /\ pc' = "extract"
    /\ batch_pos' = batch_start
    /\ batch_clips' = <<>>
    /\ completed' = <<>>
    /\ UNCHANGED <<planning, fusion, inputs, clip_specs, batch_start, wstate, response, results,
                   results_idx, file, save_calls, disk, error>>

\* Step 1: extract_clip succeeds for the next spec of the batch.
ExtractClip ==
    /\ pc = "extract"
    /\ batch_pos < batch_end
    /\ LET spec == clip_specs[batch_pos + 1]
       IN  /\ batch_clips' = Append(batch_clips, spec)
           /\ wstate' = [wstate EXCEPT ![spec.idx] = "extracted"]
           /\ disk' = disk \cup {spec.idx}
    /\ batch_pos' = batch_pos + 1
    /\ UNCHANGED <<planning, fusion, inputs, pc, clip_specs, batch_start, completed, response, results,
                   results_idx, file, save_calls, error>>

\* Step 1: extract_clip raises FFmpegError; ffmpeg may leave a partial file.
ExtractFails ==
    /\ pc = "extract"
    /\ batch_pos < batch_end
    /\ LET spec == clip_specs[batch_pos + 1]
       IN  /\ wstate' = [wstate EXCEPT ![spec.idx] = "extract_failed"]
           /\ \E leftover \in BOOLEAN :
                disk' = IF leftover THEN disk \cup {spec.idx} ELSE disk
    /\ batch_pos' = batch_pos + 1
    /\ UNCHANGED <<planning, fusion, inputs, pc, clip_specs, batch_start, batch_clips, completed, response,
                   results, results_idx, file, save_calls, error>>

\* "if not batch_clips: continue".
SkipEmptyBatch ==
    /\ pc = "extract"
    /\ batch_pos = batch_end
    /\ batch_clips = <<>>
    /\ batch_start' = batch_start + batch_size
    /\ pc' = "loop"
    /\ UNCHANGED <<planning, fusion, inputs, clip_specs, batch_pos, batch_clips, wstate, completed, response,
                   results, results_idx, file, save_calls, disk, error>>

\* Step 2: process_batch_async creates one task per extracted clip.
StartRequests ==
    /\ pc = "extract"
    /\ batch_pos = batch_end
    /\ batch_clips # <<>>
    /\ wstate' = [i \in DOMAIN wstate |->
                    IF \E k \in 1..Len(batch_clips) : batch_clips[k].idx = i
                    THEN "inflight" ELSE wstate[i]]
    /\ pc' = "await"
    /\ UNCHANGED <<planning, fusion, inputs, clip_specs, batch_start, batch_pos, batch_clips, completed,
                   response, results, results_idx, file, save_calls, disk, error>>

\* One request of the batch settles: a response with a success status, or an
\* exception.
SettleRequest ==
    /\ pc = "await"
    /\ \E i \in DOMAIN wstate, r \in Settlements :
        /\ wstate[i] = "inflight"
        /\ wstate' = [wstate EXCEPT ![i] = "settled"]
        /\ response' = [response EXCEPT ![i] = r]
        /\ completed' = Append(completed, i)
    /\ UNCHANGED <<planning, fusion, inputs, pc, clip_specs, batch_start, batch_pos, batch_clips, results,
                   results_idx, file, save_calls, disk, error>>

inflight == {i \in DOMAIN wstate : wstate[i] = "inflight"}

\* GatherSettled for a gather that returns on the first task to complete.
GatherSettledFirst ==
    \E k \in 1..Len(batch_clips) : wstate[batch_clips[k].idx] = "settled"

\* asyncio.gather returns once every task has settled.
GatherSettled == inflight = {}

\* GatherOrder for results taken in completion order.
GatherOrderByCompletion(tasks, done) ==
    [k \in 1..Len(done) |-> clip_specs[done[k]]]

\* The order of gather's results: the order of the tasks.
GatherOrder(tasks, done) == tasks

\* TaskResult for a collection that parses whatever a request settled with.
TaskResultRecordingErrors(i) == extract_json_from_response(response[i])

\* What a task returned, or "exception".
TaskResult(i) ==
    IF response[i].status = "ok" THEN extract_json_from_response(response[i])
    ELSE JsonOther("exception")

\* Raise for a tmpdir that is not removed on the way out.
RaiseKeepingFiles(e) ==
    /\ pc' = "crashed"
    /\ error' = e
    /\ disk' = disk

\* process_video leaves with an exception; TemporaryDirectory removes tmpdir.
Raise(e) ==
    /\ pc' = "crashed"
    /\ error' = e
    /\ disk' = {}

\* Collect for a list that is started afresh with every batch.
CollectReplacing(list, batch_results) == batch_results

\* Step 3: "results.append(clip_result)" for every judgment of the batch.
Collect(list, batch_results) == list \o batch_results

\* The loop over zip(batch_clips, results) of process_batch_async and Step 3 of
\* process_video: result.get raises AttributeError on a value that is no dict.
CollectResults ==
    /\ pc = "await"
    /\ GatherSettled
    /\ LET order == GatherOrder(batch_clips, completed)
           kept == SelectSeq(order, LAMBDA s : TaskResult(s.idx).type # "exception")
       IN  IF \E k \in 1..Len(kept) : TaskResult(kept[k].idx).type # "dict"
           THEN /\ Raise("AttributeError")
                /\ UNCHANGED <<results, results_idx>>
           ELSE /\ results' = Collect(results,
                      [k \in 1..Len(kept) |-> ClipResult(kept[k], TaskResult(kept[k].idx))])
                /\ results_idx' = Collect(results_idx, [k \in 1..Len(kept) |-> kept[k].idx])
                /\ pc' = IF output_file THEN "save" ELSE "cleanup"
                /\ UNCHANGED <<disk, error>>
    /\ UNCHANGED <<planning, fusion, inputs, clip_specs, batch_start, batch_pos, batch_clips, wstate,
                   completed, response, file, save_calls>>

\* save_results: open(output_file, "w") truncates the file.
SaveOpen ==
    /\ pc = "save"
    /\ file' = [state |-> "partial", data |-> <<>>]
    /\ save_calls' = Append(save_calls, results)
    /\ pc' = "write"
    /\ UNCHANGED <<planning, fusion, inputs, clip_specs, batch_start, batch_pos, batch_clips, wstate,
                   completed, response, results, results_idx, disk, error>>

\* save_results: open raises OSError.
SaveOpenFails ==
    /\ pc = "save"
    /\ save_calls' = Append(save_calls, results)
    /\ Raise("OSError")
    /\ UNCHANGED <<planning, fusion, inputs, clip_specs, batch_start, batch_pos, batch_clips, wstate,
                   completed, response, results, results_idx, file>>

\* save_results: json.dump writes the next part of the document.
SaveWrite ==
    /\ pc = "write"
    /\ Len(file.data) < Len(results)
    /\ file' = [file EXCEPT !.data = Append(@, JsonRecord(results[Len(@) + 1]))]
    /\ UNCHANGED <<planning, fusion, inputs, pc, clip_specs, batch_start, batch_pos, batch_clips, wstate,
                   completed, response, results, results_idx, save_calls, disk, error>>

\* save_results: a write (or the flush on close) raises OSError.
SaveWriteFails ==
    /\ pc = "write"
    /\ Raise("OSError")
    /\ UNCHANGED <<planning, fusion, inputs, clip_specs, batch_start, batch_pos, batch_clips, wstate,
                   completed, response, results, results_idx, file, save_calls>>

\* save_results: the with block closes the file.
SaveClose ==
    /\ pc = "write"
    /\ Len(file.data) = Len(results)
    /\ file' = [file EXCEPT !.state = "complete"]
    /\ pc' = "cleanup"
    /\ UNCHANGED <<planning, fusion, inputs, clip_specs, batch_start, batch_pos, batch_clips, wstate,
                   completed, response, results, results_idx, save_calls, disk, error>>

\* os.remove of every clip of batch_clips, then the next iteration.
CleanupBatch ==
    /\ pc = "cleanup"
    /\ disk' = disk \ {batch_clips[k].idx : k \in 1..Len(batch_clips)}
    /\ batch_start' = batch_start + batch_size
    /\ pc' = "loop"
    /\ UNCHANGED <<planning, fusion, inputs, clip_specs, batch_pos, batch_clips, wstate, completed, response,
                   results, results_idx, file, save_calls, error>>

\* KeyboardInterrupt while a batch is being processed (Ctrl-C, the only way
\* to stop a run): asyncio.run cancels the requests that have not settled and
\* the exception leaves process_video; nothing catches it.
Interrupt ==
    /\ pc \in {"extract", "await", "save", "write", "cleanup"}
    /\ wstate' = [i \in DOMAIN wstate |->
                    IF wstate[i] = "inflight" THEN "cancelled" ELSE wstate[i]]
    /\ Raise("KeyboardInterrupt")
    /\ UNCHANGED <<planning, fusion, inputs, clip_specs, batch_start, batch_pos, batch_clips,
                   completed, response, results, results_idx, file, save_calls>>

\* The loop is exhausted: tmpdir is removed and results is returned.
Finish ==
    /\ pc = "loop"
    /\ batch_start >= total_clips
    /\ pc' = "done"
    /\ disk' = {}
    /\ UNCHANGED <<planning, fusion, inputs, clip_specs, batch_start, batch_pos, batch_clips, wstate,
                   completed, response, results, results_idx, file, save_calls, error>>

(***************************************************************************)
(* The planner alone, over a wider range of durations                      *)
(***************************************************************************)

InitPlan ==
    /\ total_duration \in 1..MaxPlanDuration
    /\ clip_duration \in 1..MaxPlanClip
    /\ slide_interval \in 1..MaxPlanSlide
    /\ batch_size = 1
    /\ output_file = FALSE
    /\ pc = "plan"
    /\ clip_specs = <<>>
    /\ batch_start = 0
    /\ batch_pos = 0
    /\ batch_clips = <<>>
    /\ wstate = <<>>
    /\ completed = <<>>
    /\ response = <<>>
    /\ results = <<>>
    /\ results_idx = <<>>
    /\ file = NoFile
    /\ save_calls = <<>>
    /\ disk = {}
    /\ error = "none"
    /\ NoPlanning
    /\ NoFusion

NextPlan == PlanClips

SpecPlan == InitPlan /\ [][NextPlan]_vars

(***************************************************************************)
(* The planner step by step, on parameters of either sign.  process_video  *)
(* takes clip_duration and slide_interval as they are given and            *)
(* total_duration as ffprobe reports it.                                   *)
(***************************************************************************)

InitInput ==
    /\ total_duration \in -1..MaxInDuration
    /\ clip_duration \in -1..MaxInClip
    /\ slide_interval \in -1..MaxInSlide
    /\ batch_size = 1
    /\ output_file = FALSE
    /\ pc = "plan_loop"
    /\ clip_specs = <<>>
    /\ batch_start = 0
    /\ batch_pos = 0
    /\ batch_clips = <<>>
    /\ wstate = <<>>
    /\ completed = <<>>
    /\ response = <<>>
    /\ results = <<>>
    /\ results_idx = <<>>
    /\ file = NoFile
    /\ save_calls = <<>>
    /\ disk = {}
    /\ error = "none"
    /\ NoPlanning
    /\ NoFusion

\* One iteration of "while current_time + clip_duration <= total_duration".
\* The list is followed up to MaxPlanSteps windows.
PlanStep ==
    /\ pc = "plan_loop"
    /\ current_time + clip_duration <= total_duration
    /\ Len(clip_specs) < MaxPlanSteps
    /\ clip_index' = clip_index + 1
    /\ clip_specs' = Append(clip_specs,
                            ClipSpec(clip_index + 1, current_time,
                                     current_time + clip_duration))
    /\ current_time' = current_time + slide_interval
    /\ UNCHANGED <<fusion, inputs, pc, batch_start, batch_pos, batch_clips, wstate,
                   completed, response, results, results_idx, file, save_calls, disk,
                   error>>

\* The loop condition is false: the final partial clip, then the batch loop.
PlanRemainder ==
    /\ pc = "plan_loop"
    /\ ~(current_time + clip_duration <= total_duration)
    /\ LET remaining == total_duration - current_time
       IN  IF remaining > slide_interval
           THEN /\ clip_index' = clip_index + 1
                /\ clip_specs' = Append(clip_specs,
                       ClipSpec(clip_index + 1, Max(0, total_duration - clip_duration),
                                total_duration))
           ELSE UNCHANGED <<clip_index, clip_specs>>
    /\ wstate' = [i \in 1..Len(clip_specs') |-> "pending"]
    /\ response' = [i \in 1..Len(clip_specs') |-> NoResponse]
    /\ pc' = "loop"
    /\ UNCHANGED <<fusion, inputs, current_time, batch_start, batch_pos, batch_clips,
                   completed, results, results_idx, file, save_calls, disk, error>>

NextInput ==
    \/ PlanStep
    \/ PlanRemainder

SpecInput == InitInput /\ [][NextInput]_vars

(***************************************************************************)
(* detect_rallies (src/tad/vlm_to_rally.py).  Times are whole              *)
(* milliseconds; scores are fractions num/den with den > 0.                *)
(***************************************************************************)

Frac(n, d) == [num |-> n, den |-> d]

FracAdd(a, b) == Frac(a.num * b.den + b.num * a.den, a.den * b.den)

FracEq(a, b) == a.num * b.den = b.num * a.den

\* a >= b
FracGE(a, b) == a.num * b.den >= b.num * a.den

\* sum(window)
RECURSIVE FracSum(_)
FracSum(w) == IF w = <<>> THEN Frac(0, 1) ELSE FracAdd(Head(w), FracSum(Tail(w)))

\* round(x, 2) of x seconds, for x given in milliseconds: the nearest multiple
\* of 10 ms, a tie going to the even hundredth.
Round2(x) ==
    LET q == x \div 10
        r == x % 10
    IN  IF r < 5 THEN 10 * q
        ELSE IF r > 5 THEN 10 * (q + 1)
        ELSE IF q % 2 = 0 THEN 10 * q
        ELSE 10 * (q + 1)

\* One judgment as a line of the detection file gives it; "missing" marks an
\* absent key.
VlmClip(s, e, r, shot) ==
    [start_time |-> s, end_time |-> e, in_rally |-> r, shot_type |-> shot]

\* sorted(clips, key=start_time): a stable sort, into a new list.
InsertByStart(sorted, c) ==
    LET k == Cardinality({i \in 1..Len(sorted) : sorted[i].start_time <= c.start_time})
    IN  SubSeq(sorted, 1, k) \o <<c>> \o SubSeq(sorted, k + 1, Len(sorted))

RECURSIVE SortByStart(_)
SortByStart(cs) ==
    IF cs = <<>> THEN <<>>
    ELSE InsertByStart(SortByStart(SubSeq(cs, 1, Len(cs) - 1)), cs[Len(cs)])

\* max(c["end_time"] for c in clips_sorted)
RECURSIVE MaxEnd(_)
MaxEnd(cs) ==
    IF Len(cs) = 1 THEN cs[1].end_time
    ELSE Max(cs[1].end_time, MaxEnd(Tail(cs)))

\* SlotTimes with the loop condition "t <= t_max".
RECURSIVE SlotTimesInclusive(_, _, _)
SlotTimesInclusive(t, t_max, s) ==
    IF t <= t_max THEN <<t>> \o SlotTimesInclusive(t + s, t_max, s) ELSE <<>>

\* "while t < t_max: slot_times.append(t); t += slide_interval"
RECURSIVE SlotTimes(_, _, _)
SlotTimes(t, t_max, s) ==
    IF t < t_max THEN <<t>> \o SlotTimes(t + s, t_max, s) ELSE <<>>

\* The vote of one covering clip.
IsRally(c, rfc) ==
    LET is_rally == DictGet(c, "in_rally", "false") = "true"
    IN  IF rfc
        THEN is_rally /\ DictGet(c, "shot_type", "none") = "full_court"
        ELSE is_rally

\* RawScore with the floor division rally_votes // total_votes.
RawScoreFloorDiv(cs, t, rfc) ==
    LET covering == {k \in 1..Len(cs) : cs[k].start_time <= t /\ t < cs[k].end_time}
        rally_votes == Cardinality({k \in covering : IsRally(cs[k], rfc)})
        total_votes == Cardinality(covering)
    IN  IF total_votes > 0 THEN Frac(rally_votes \div total_votes, 1) ELSE Frac(0, 1)

\* RawScore with every judgment of the list counted as a vote.
RawScoreOfAll(cs, t, rfc) ==
    LET covering == {k \in 1..Len(cs) : cs[k].start_time <= t /\ t < cs[k].end_time}
        rally_votes == Cardinality({k \in covering : IsRally(cs[k], rfc)})
        total_votes == Len(cs)
    IN  IF total_votes > 0 THEN Frac(rally_votes, total_votes) ELSE Frac(0, 1)

\* The raw score of the slot at t: rally_votes / total_votes, 0.0 without votes.
RawScore(cs, t, rfc) ==
    LET covering == {k \in 1..Len(cs) : cs[k].start_time <= t /\ t < cs[k].end_time}
        rally_votes == Cardinality({k \in covering : IsRally(cs[k], rfc)})
        total_votes == Cardinality(covering)
    IN  IF total_votes > 0 THEN Frac(rally_votes, total_votes) ELSE Frac(0, 1)

\* "for t in slot_times: ... raw_scores.append(...)"
RECURSIVE RawScores(_, _, _)
RawScores(cs, slots, rfc) ==
    IF slots = <<>> THEN <<>>
    ELSE <<RawScore(cs, Head(slots), rfc)>> \o RawScores(cs, Tail(slots), rfc)

\* SmoothedAt with a trailing window: the mean of raw_scores[max(0, i-2) : i+1].
SmoothedAtTrailing(raw, i) ==
    LET window == SubSeq(raw, Max(1, i - 2), i)
        total == FracSum(window)
    IN  Frac(total.num, total.den * Len(window))

\* The 3-slot moving average at slot i (1-based): the mean of
\* raw_scores[max(0, i-1) : i+2] for the 0-based i.
SmoothedAt(raw, i) ==
    LET window == SubSeq(raw, Max(1, i - 1), Min(Len(raw), i + 1))
        total == FracSum(window)
    IN  Frac(total.num, total.den * Len(window))

\* "for i in range(n): ... smoothed.append(...)", from slot i on.
RECURSIVE SmoothLoop(_, _)
SmoothLoop(raw, i) ==
    IF i > Len(raw) THEN <<>>
    ELSE <<SmoothedAt(raw, i)>> \o SmoothLoop(raw, i + 1)

Smoothed(raw) == SmoothLoop(raw, 1)

\* Active with a strict comparison.
ActiveStrict(score, ms) == ~FracGE(ms, score)

\* "score >= min_score"
Active(score, ms) == FracGE(score, ms)

\* LongEnough with a strict comparison.
LongEnoughStrict(start, end, md) == end - start > md

\* "current_end - current_start >= min_duration"
LongEnough(start, end, md) == end - start >= md

Rally(start, end) == [start |-> Round2(start), end |-> Round2(end), label |-> "rally"]

\* The merging loop before the first slot; "open" is "current_start is not None",
\* "runs" keeps every pair (current_start, current_end) the loop has closed.
MergeStart ==
    [open |-> FALSE, current_start |-> 0, current_end |-> 0, rallies |-> <<>>,
     runs |-> <<>>]

\* The pair (current_start, current_end) at the end of a run of active slots.
CloseRun(st) ==
    IF st.open
    THEN Append(st.runs, [start |-> st.current_start, end |-> st.current_end])
    ELSE st.runs

\* A maximal run of active slots has ended: it is kept when it is long enough.
CloseSegment(st, md) ==
    IF st.open /\ LongEnough(st.current_start, st.current_end, md)
    THEN Append(st.rallies, Rally(st.current_start, st.current_end))
    ELSE st.rallies

\* One iteration of "for t, score in zip(slot_times, smoothed)".
MergeStep(st, t, score, s, md, ms) ==
    IF Active(score, ms)
    THEN [open |-> TRUE,
          current_start |-> IF st.open THEN st.current_start ELSE t,
          current_end |-> t + s,
          rallies |-> st.rallies,
          runs |-> st.runs]
    ELSE [open |-> FALSE,
          current_start |-> st.current_start,
          current_end |-> st.current_end,
          rallies |-> CloseSegment(st, md),
          runs |-> CloseRun(st)]

RECURSIVE MergeLoop(_, _, _, _, _, _, _)
MergeLoop(st, slots, scores, i, s, md, ms) ==
    IF i > Len(slots) THEN st
    ELSE MergeLoop(MergeStep(st, slots[i], scores[i], s, md, ms),
                   slots, scores, i + 1, s, md, ms)

\* The slots of a sorted non-empty list of judgments.
slot_times(clips_sorted, s) ==
    SlotTimes(clips_sorted[1].start_time, MaxEnd(clips_sorted), s)

\* The lists detect_rallies builds before it merges: slot_times, raw_scores
\* and smoothed.
Locals(cs, s, rfc) ==
    IF cs = <<>> THEN NoLocals
    ELSE LET clips_sorted == SortByStart(cs)
             slots == slot_times(clips_sorted, s)
             raw == RawScores(clips_sorted, slots, rfc)
         IN  [slot_times |-> slots, raw_scores |-> raw, smoothed |-> Smoothed(raw)]

\* Thresholding, merging and the duration filter on the lists of a call.
Merged(l, s, md, ms) ==
    IF l.slot_times = <<>> THEN <<>>
    ELSE CloseSegment(MergeLoop(MergeStart, l.slot_times, l.smoothed, 1, s, md, ms), md)

\* The pairs (current_start, current_end) of the runs the merging loop closes
\* on the lists of a call, before the duration filter and round(x, 2).
Runs(l, s, md, ms) ==
    IF l.slot_times = <<>> THEN <<>>
    ELSE CloseRun(MergeLoop(MergeStart, l.slot_times, l.smoothed, 1, s, md, ms))

detect_rallies(cs, cd, s, md, ms, rfc) == Merged(Locals(cs, s, rfc), s, md, ms)

(***************************************************************************)
(* The rally annotation file: convert_vlm_to_rally writes it, read_jsonl   *)
(* (src/annotator/main.py, src/tad/convert_annotations.py) reads it.       *)
(***************************************************************************)

\* The text json.dumps gives a number of seconds: digits before and after the
\* point, for a time in milliseconds.
NumberText(x) == [kind |-> "number", whole |-> x \div 1000, frac |-> x % 1000]

StringText(v) == [kind |-> "string", chars |-> v]

TrueText == [kind |-> "true", chars |-> "true"]

\* json.dumps of rally_meta: the keys in the order of the dict.
MetaLine(video, d) ==
    <<[key |-> "_meta", text |-> TrueText],
      [key |-> "video", text |-> StringText(video)],
      [key |-> "duration", text |-> NumberText(d)]>>

\* json.dumps of one rally.
RallyLine(r) ==
    <<[key |-> "start", text |-> NumberText(r.start)],
      [key |-> "end", text |-> NumberText(r.end)],
      [key |-> "label", text |-> StringText(r.label)]>>

\* The value json.loads gives for one text.
ParseText(t) ==
    CASE t.kind = "number" -> t.whole * 1000 + t.frac
      [] t.kind = "string" -> t.chars
      [] t.kind = "true" -> "true"

\* json.loads of one line: the object with the keys of the line.
JsonLoads(line) ==
    [k \in {line[i].key : i \in 1..Len(line)} |->
        ParseText(line[CHOOSE i \in 1..Len(line) :
                           /\ line[i].key = k
                           /\ \A j \in (i + 1)..Len(line) : line[j].key # k].text)]

\* meta.pop(key, None)
Pop(d, key) == [k \in DOMAIN d \ {key} |-> d[k]]

\* The lines read_jsonl parses as results.
ResultLinesAll(lines) == lines

\* "for line in lines[1:]"
ResultLines(lines) == Tail(lines)

\* read_jsonl: the metadata of the first line without "_meta", and the parsed
\* later lines (meta["results"] in the annotator, the second component of the
\* pair in convert_annotations).
read_jsonl(lines) ==
    IF lines = <<>> THEN [meta |-> <<>>, results |-> <<>>]
    ELSE LET rest == ResultLines(lines)
         IN  [meta |-> Pop(JsonLoads(lines[1]), "_meta"),
              results |-> [i \in 1..Len(rest) |-> JsonLoads(rest[i])]]

\* The path named by the detection file's metadata.
VideoPath == "video.mp4"

(***************************************************************************)
(* Fusion of the judgments of a detection file                             *)
(***************************************************************************)

\* The judgment of one planned window: none recorded, rally seen in a
\* full-court shot, rally seen in a close-up, or no rally.
Judgments == {"absent", "rally", "rally_close_up", "no_rally"}

\* How a detection file presents its judgments: the length of the time unit
\* in milliseconds (whole seconds, or 4 ms, which round(x, 2) does not keep),
\* and whether the lines come in the order of the plan or reversed.
Presentations ==
    {[unit |-> 1000, reversed |-> FALSE],
     [unit |-> 1000, reversed |-> TRUE],
     [unit |-> 4, reversed |-> FALSE]}

\* The list of judgments for the windows of a plan given in units of u ms.
JudgedClips(plan, j, u) ==
    LET all == [k \in 1..Len(plan) |-> [spec |-> plan[k], j |-> j[k]]]
        kept == SelectSeq(all, LAMBDA x : x.j # "absent")
    IN  [k \in 1..Len(kept) |->
            VlmClip(kept[k].spec.start_time * u, kept[k].spec.end_time * u,
                    IF kept[k].j = "no_rally" THEN "false" ELSE "true",
                    IF kept[k].j = "rally" THEN "full_court" ELSE "close_up")]

Reverse(s) == [k \in 1..Len(s) |-> s[Len(s) + 1 - k]]

\* The thresholds tried: 1/2 and 1.
MinScores == {Frac(1, 2), Frac(1, 1)}

\* process_video is not running.
Idle ==
    /\ batch_size = 1
    /\ output_file = FALSE
    /\ clip_specs = <<>>
    /\ batch_start = 0
    /\ batch_pos = 0
    /\ batch_clips = <<>>
    /\ wstate = <<>>
    /\ completed = <<>>
    /\ response = <<>>
    /\ results = <<>>
    /\ results_idx = <<>>
    /\ file = NoFile
    /\ save_calls = <<>>
    /\ disk = {}
    /\ error = "none"
    /\ NoPlanning

InitFuse ==
    /\ \E p \in Presentations, T \in 1..MaxFuseDuration, c \in 1..MaxFuseClip,
          s \in 1..MaxFuseSlide :
        LET plan == PlanWindows(T, c, s)
        IN  /\ total_duration = T * p.unit
            /\ clip_duration = c * p.unit
            /\ slide_interval = s * p.unit
            /\ min_duration \in {m * p.unit : m \in -1..MaxFuseMinDuration}
            /\ \E j \in [1..Len(plan) -> Judgments] :
                  clips = IF p.reversed THEN Reverse(JudgedClips(plan, j, p.unit))
                          ELSE JudgedClips(plan, j, p.unit)
    /\ min_score \in MinScores
    /\ require_full_court \in BOOLEAN
    /\ rallies = <<>>
    /\ prev_rallies = <<>>
    /\ ann_file = <<>>
    /\ ann_read = "none"
    /\ duration = 0
    /\ locals = NoLocals
    /\ pc = "fuse"
    /\ Idle

\* The caller's list after a call that sorts it in place.
ClipsSortedInPlace(cs) == SortByStart(cs)

\* The caller's list after a call of detect_rallies: sorted() builds a new
\* list and no element is assigned to.
ClipsAfterCall(cs) == cs

\* A call of detect_rallies on the judgments, and a second one after it.
DetectRallies ==
    /\ pc \in {"fuse", "fused"}
    /\ prev_rallies' = rallies
    /\ locals' = Locals(clips, slide_interval, require_full_court)
    /\ rallies' = Merged(locals', slide_interval, min_duration, min_score)
    /\ clips' = ClipsAfterCall(clips)
    /\ pc' = IF pc = "fuse" THEN "fused" ELSE "fused_again"
    /\ UNCHANGED <<planning, orchestrator, inputs, min_duration, min_score,
                   require_full_court, ann_file, ann_read, duration>>

\* convert_vlm_to_rally, which leaves require_full_court at its default of
\* True: nothing is written without judgments; otherwise the
\* duration comes from the video or, when the video is not found, from the
\* judgments, and the metadata line and one line per rally are written.
ConvertVlmToRally ==
    /\ pc = "fuse"
    /\ require_full_court = TRUE
    /\ IF clips = <<>>
       THEN /\ pc' = "converted"
            /\ UNCHANGED <<rallies, duration, ann_file, locals>>
       ELSE /\ locals' = Locals(clips, slide_interval, TRUE)
            /\ rallies' = Merged(locals', slide_interval, min_duration, min_score)
            /\ duration' \in {total_duration, MaxEnd(clips)}
            /\ ann_file' = <<MetaLine(VideoPath, duration')>> \o
                               [k \in 1..Len(rallies') |-> RallyLine(rallies'[k])]
            /\ pc' = "written"
    /\ UNCHANGED <<planning, orchestrator, inputs, clips, min_duration, min_score,
                   require_full_court, prev_rallies, ann_read>>

\* read_jsonl on the annotation file.
ReadJsonl ==
    /\ pc = "written"
    /\ ann_read' = read_jsonl(ann_file)
    /\ pc' = "read"
    /\ UNCHANGED <<planning, orchestrator, inputs, clips, min_duration, min_score,
                   require_full_court, rallies, prev_rallies, ann_file, duration, locals>>

NextFuse ==
    \/ DetectRallies
    \/ ConvertVlmToRally
    \/ ReadJsonl

SpecFuse == InitFuse /\ [][NextFuse]_vars

(***************************************************************************)
(* Fusion of complete judgment lists with one deviating judgment: windows  *)
(* planned with clip_duration = 2 * slide_interval, none missing, all      *)
(* judged alike except one.                                                *)
(***************************************************************************)

\* The judgment opposite to a background judgment.
Opposite(j) == IF j = "rally" THEN "no_rally" ELSE "rally"

InitSmooth ==
    /\ \E p \in Presentations, T \in 1..MaxSmoothDuration, s \in 1..MaxSmoothSlide :
        LET plan == PlanWindows(T, 2 * s, s)
        IN  /\ total_duration = T * p.unit
            /\ clip_duration = 2 * s * p.unit
            /\ slide_interval = s * p.unit
            /\ min_duration \in {m * p.unit : m \in 0..MaxSmoothMinDuration}
            /\ \E background \in {"rally", "no_rally"}, k \in 1..Len(plan) :
                  LET j == [i \in 1..Len(plan) |->
                               IF i = k THEN Opposite(background) ELSE background]
                  IN  clips = IF p.reversed THEN Reverse(JudgedClips(plan, j, p.unit))
                              ELSE JudgedClips(plan, j, p.unit)
    /\ min_score = Frac(1, 2)
    /\ require_full_court \in BOOLEAN
    /\ rallies = <<>>
    /\ prev_rallies = <<>>
    /\ ann_file = <<>>
    /\ ann_read = "none"
    /\ duration = 0
    /\ locals = NoLocals
    /\ pc = "fuse"
    /\ Idle

NextSmooth == DetectRallies

SpecSmooth == InitSmooth /\ [][NextSmooth]_vars

(***************************************************************************)
(* A run of process_video, and the fusion of the records it saved          *)
(***************************************************************************)

\* dict.get(key) on a record read back from the checkpoint.
GetKey(rec, key) == IF key \in DOMAIN rec THEN rec[key] ELSE "missing"

\* RecordAsClip for a fusion that takes its verdict from has_volleyball.
RecordAsClipByVerdict(rec) ==
    VlmClip(rec.start_time * 1000, rec.end_time * 1000,
            IF rec.has_volleyball THEN "true" ELSE "false", rec.shot_type)

\* One record of the checkpoint as detect_rallies reads it: the keys
\* start_time, end_time, in_rally and shot_type, times in milliseconds.
RecordAsClip(rec) ==
    VlmClip(rec.start_time * 1000, rec.end_time * 1000,
            GetKey(rec, "in_rally"), GetKey(rec, "shot_type"))

\* The records of a checkpoint as the clips of detect_rallies.
RecordsAsClips(data) == [k \in 1..Len(data) |-> RecordAsClip(data[k])]

\* detect_rallies on the records of the checkpoint a finished run left, with
\* the run's clip_duration and slide_interval, min_score 0.5,
\* require_full_court True and min_duration 3.0 (the default) or 0.
FuseRecords ==
    /\ pc = "done"
    /\ output_file
    /\ file.state = "complete"
    /\ clips' = RecordsAsClips(file.data)
    /\ min_duration' \in {0, 3000}
    /\ min_score' = Frac(1, 2)
    /\ require_full_court' = TRUE
    /\ locals' = Locals(clips', slide_interval * 1000, TRUE)
    /\ rallies' = Merged(locals', slide_interval * 1000, min_duration', min_score')
    /\ pc' = "records_fused"
    /\ UNCHANGED <<planning, orchestrator, inputs, prev_rallies, ann_file, ann_read,
                   duration>>

Next ==
    \/ PlanClips
    \/ BeginBatch
    \/ ExtractClip
    \/ ExtractFails
    \/ SkipEmptyBatch
    \/ StartRequests
    \/ SettleRequest
    \/ CollectResults
    \/ SaveOpen
    \/ SaveOpenFails
    \/ SaveWrite
    \/ SaveWriteFails
    \/ SaveClose
    \/ CleanupBatch
    \/ Interrupt
    \/ Finish
    \/ FuseRecords

Spec == Init /\ [][Next]_vars

(***************************************************************************)
(* Properties                                                              *)
(***************************************************************************)

Range(s) == {s[k] : k \in 1..Len(s)}

IsPrefix(s, t) == Len(s) <= Len(t) /\ \A k \in 1..Len(s) : s[k] = t[k]

planned == pc # "plan"

\* C1: whatever the completion order inside a batch, the list returned by
\* process_video and every list passed to save_results is strictly increasing
\* in window index; each element carries the times of its window.
C1_ResultsInWindowOrder ==
    /\ Len(results) = Len(results_idx)
    /\ \A k \in 1..Len(results_idx) :
        /\ results_idx[k] \in 1..total_clips
        /\ results[k].start_time = clip_specs[results_idx[k]].start_time
        /\ results[k].end_time = clip_specs[results_idx[k]].end_time
    /\ \A k \in 1..(Len(results_idx) - 1) : results_idx[k] < results_idx[k + 1]
    /\ \A j \in 1..Len(save_calls) : IsPrefix(save_calls[j], results)

\* C1 witness: two requests of one batch settled in reverse order, both were
\* recorded and the list is about to be saved.
C1_Witness ==
    /\ pc = "save"
    /\ Len(completed) >= 2
    /\ completed[1] > completed[2]
    /\ {completed[1], completed[2]} \subseteq Range(results_idx)

\* The windows that did not fail: extracted, and settled with a success status.
NotFailed ==
    SelectSeq([i \in 1..total_clips |-> i],
              LAMBDA i : wstate[i] = "settled" /\ response[i].status = "ok")

\* C2: whichever windows fail extraction or classification, process_video
\* (unless a checkpoint write fails or the run is interrupted) processes
\* every window and returns judgments for exactly the windows that did not
\* fail, in window order.
C2_BatchIsolation ==
    (/\ pc \in {"done", "crashed"}
     /\ error \notin {"OSError", "KeyboardInterrupt"}
     /\ \E i \in 1..total_clips :
          wstate[i] = "extract_failed" \/ response[i].status = "error") =>
        /\ pc = "done"
        /\ \A i \in 1..total_clips : wstate[i] # "pending"
        /\ results_idx = NotFailed

\* The current batch has been collected.
Collected(i) == i <= batch_start \/ (i <= batch_end /\ pc \in {"save", "write", "cleanup"})

IsFallback(r, content) ==
    /\ r.has_volleyball = FALSE
    /\ r.confidence = "Confidence.LOW"
    /\ r.description.prefix = "Failed to parse response: "
    /\ r.description.raw = content.raw
    /\ r.description.len = Min(content.len, ExcerptLen)

\* C3: a response with a success status whose content is not a JSON object
\* never aborts the run, and once its batch is collected the window has a
\* fallback judgment (negative, low, excerpt of the raw content).
C3_MalformedFallback ==
    /\ error # "AttributeError"
    /\ \A i \in DOMAIN wstate :
        (/\ wstate[i] = "settled"
         /\ response[i].status = "ok"
         /\ response[i].body.type # "dict"
         /\ Collected(i))
        => \E k \in 1..Len(results) :
             results_idx[k] = i /\ IsFallback(results[k], response[i])

\* C4: with an output file configured, at every batch boundary after the
\* first batch and on normal completion the checkpoint holds exactly the
\* judgments accumulated so far.
C4_CheckpointAfterEveryBatch ==
    (output_file /\ pc \in {"loop", "done"} /\ batch_start > 0) =>
        file = [state |-> "complete", data |-> Serialize(results)]

\* C5: while a checkpoint is overwritten, a concurrent reader of the file
\* observes the complete previous checkpoint or the complete new one, never a
\* truncated or half-written file.
C5_AtomicOverwrite ==
    Len(save_calls) >= 2 =>
        /\ file.state = "complete"
        /\ \E j \in {Len(save_calls) - 1, Len(save_calls)} :
             file.data = Serialize(save_calls[j])

\* The checkpoint left by the last save_results call that returned.
PreviousCheckpoint ==
    IF Len(save_calls) <= 1 THEN NoFile
    ELSE [state |-> "complete", data |-> Serialize(save_calls[Len(save_calls) - 1])]

\* C6: when the checkpoint write of a batch fails after an earlier checkpoint
\* was written, the failure reaches the caller of process_video and the
\* earlier checkpoint is still on disk, unchanged.
C6_FailedWriteKeepsPrevious ==
    (error = "OSError" /\ Len(save_calls) >= 2) =>
        (pc = "crashed" /\ file = PreviousCheckpoint)

\* C7: no extraction and no request of a later batch starts before every
\* request of the current batch has settled, and the checkpoint is written
\* after that barrier, never with a request in flight.
C7_BatchBarrier ==
    /\ \A i \in DOMAIN wstate : i > batch_end => wstate[i] = "pending"
    /\ \A i \in DOMAIN wstate :
        wstate[i] \in {"extracted", "inflight"} => (batch_start < i /\ i <= batch_end)
    /\ inflight # {} => pc = "await"
    /\ pc \in {"loop", "extract"} =>
         \A i \in DOMAIN wstate :
            /\ i <= batch_start => wstate[i] \in {"settled", "extract_failed"}
            /\ i > batch_pos /\ pc = "extract" => wstate[i] = "pending"
    /\ pc \in {"save", "write", "cleanup"} =>
         \A i \in DOMAIN wstate :
            i <= batch_end => wstate[i] \in {"settled", "extract_failed"}

\* C7 witness: the second batch is being extracted after the requests of the
\* first one settled and its checkpoint was written.
C7_Witness ==
    /\ pc = "extract"
    /\ batch_start > 0
    /\ batch_pos > batch_start
    /\ save_calls # <<>>
    /\ \E i \in DOMAIN wstate : i <= batch_start /\ wstate[i] = "settled"

\* C8: every planned window has 0 <= start < end <= total_duration, every
\* window but the last has length clip_duration, indices are 1..n, and the
\* windows are strictly increasing by index and by start.
C8_WindowInvariants ==
    planned =>
        /\ \A k \in 1..Len(clip_specs) :
            /\ clip_specs[k].idx = k
            /\ 0 <= clip_specs[k].start_time
            /\ clip_specs[k].start_time < clip_specs[k].end_time
            /\ clip_specs[k].end_time <= total_duration
            /\ k < Len(clip_specs) =>
                 clip_specs[k].end_time - clip_specs[k].start_time = clip_duration
        /\ \A k \in 1..(Len(clip_specs) - 1) :
            clip_specs[k].start_time < clip_specs[k + 1].start_time

\* The reference plan: the regular windows, then the final window when the
\* video left after the first start not emitted exceeds slide_interval.
ReferencePlan(T, c, s) ==
    LET n == Cardinality({k \in 1..T : (k - 1) * s + c <= T})
        regular == [k \in 1..n |-> ClipSpec(k, (k - 1) * s, (k - 1) * s + c)]
        first_not_emitted == n * s
    IN  IF T - first_not_emitted > s
        THEN Append(regular, ClipSpec(n + 1, Max(0, T - c), T))
        ELSE regular

\* C9: the window plan equals the reference plan.
C9_PlanEqualsReference ==
    planned => clip_specs = ReferencePlan(total_duration, clip_duration, slide_interval)

\* C9 witness: a plan of regular windows followed by a relocated final window.
C9_Witness ==
    /\ planned
    /\ Len(clip_specs) >= 3
    /\ clip_specs[Len(clip_specs)].end_time = total_duration
    /\ clip_specs[Len(clip_specs)].start_time # (Len(clip_specs) - 1) * slide_interval
    /\ clip_specs[Len(clip_specs)].start_time > clip_specs[Len(clip_specs) - 1].start_time

\* C10 as stated: a video shorter than one clip gets no window at all and
\* the run returns an empty result without raising.
C10_ShortVideoEmptyPlan ==
    (planned /\ total_duration < clip_duration) =>
        /\ clip_specs = <<>>
        /\ results = <<>>
        /\ pc # "crashed"

\* C10 amended: a video shorter than one clip gets no full-length window; it
\* gets exactly the one window [0, total_duration) when total_duration exceeds
\* slide_interval, and otherwise no window, and then the run returns an empty
\* result without raising.
C10_ShortVideoPlan ==
    (planned /\ total_duration < clip_duration) =>
        IF total_duration > slide_interval
        THEN clip_specs = <<ClipSpec(1, 0, total_duration)>>
        ELSE /\ clip_specs = <<>>
             /\ results = <<>>
             /\ error = "none"
             /\ pc \in {"loop", "done"}

\* C10 witness: the single short window of a short video was classified and
\* the run returned its judgment.
C10_Witness ==
    /\ total_duration < clip_duration
    /\ total_duration > slide_interval
    /\ pc = "done"
    /\ Len(results) = 1
    /\ results[1].end_time = total_duration

\* The parameters C11 calls invalid.
InvalidInput == clip_duration <= 0 \/ slide_interval <= 0 \/ total_duration <= 0

\* The step-by-step planner and PlanWindows build the same list.
PlanStepsAgree ==
    (pc = "loop" /\ ~InvalidInput)
        => clip_specs = PlanWindows(total_duration, clip_duration, slide_interval)

\* C11: with clip_duration <= 0, slide_interval <= 0 or total_duration <= 0
\* planning plans no window and ends with the error InvalidInput.
C11_InvalidInputRejected ==
    InvalidInput =>
        /\ clip_specs = <<>>
        /\ pc # "plan_loop" => error = "InvalidInput"

(***************************************************************************)
(* Properties of the fusion                                                *)
(***************************************************************************)

\* detect_rallies has returned.
fused == pc \in {"fused", "fused_again"}

\* The judged time span, and the slots of the last call.
t_min == SortByStart(clips)[1].start_time

t_max == MaxEnd(clips)

Slots == locals.slot_times

Covering(t) == {k \in 1..Len(clips) : clips[k].start_time <= t /\ t < clips[k].end_time}

Positive(c) == c.in_rally = "true" /\ c.shot_type = "full_court"

\* Every slot but the first and the last is covered by at least two judgments.
InteriorCoveredTwice ==
    \A i \in 2..(Len(Slots) - 1) : Cardinality(Covering(Slots[i])) >= 2

\* All judgments are positive and full-court except exactly one, which is
\* negative and neither the first nor the last window.
OneInteriorNegative ==
    LET cs == SortByStart(clips)
    IN  \E k \in 2..(Len(cs) - 1) :
            /\ cs[k].in_rally = "false"
            /\ \A i \in 1..Len(cs) : i # k => Positive(cs[i])

\* C12: a single negative judgment inside a positive run, with every interior
\* slot covered at least twice and min_score = 1/2, does not split the run:
\* detect_rallies returns exactly one segment, from the least window start to
\* at least the greatest window end.
C12_SingleNegativeBridged ==
    (/\ fused
     /\ OneInteriorNegative
     /\ InteriorCoveredTwice
     /\ FracEq(min_score, Frac(1, 2))
     /\ min_duration <= t_max - t_min)
        => /\ Len(rallies) = 1
           /\ rallies[1].start = Round2(t_min)
           /\ rallies[1].end >= Round2(t_max)
           /\ rallies[1].label = "rally"

\* C12 witness: a run of at least five windows with one interior negative was
\* fused into one segment.
C12_Witness ==
    /\ fused
    /\ OneInteriorNegative
    /\ InteriorCoveredTwice
    /\ Len(clips) >= 5
    /\ min_duration <= t_max - t_min
    /\ Len(rallies) = 1

\* The slots whose smoothed score reaches min_score.
ActiveSlots == {i \in 1..Len(Slots) : FracGE(locals.smoothed[i], min_score)}

\* The maximal runs of consecutive active slots, as pairs of slot numbers.
MaximalRuns ==
    LET active == ActiveSlots
    IN  {r \in (1..Len(Slots)) \X (1..Len(Slots)) :
            /\ r[1] <= r[2]
            /\ \A i \in r[1]..r[2] : i \in active
            /\ (r[1] - 1) \notin active
            /\ (r[2] + 1) \notin active}

\* The span of a run: its number of slots times slide_interval.
Span(r) == (r[2] - r[1] + 1) * slide_interval

KeptRuns == {r \in MaximalRuns : Span(r) >= min_duration}

\* The segment of a run: from its first slot to its last slot plus
\* slide_interval, as detect_rallies reports it.
RunSegment(r) ==
    [start |-> Round2(Slots[r[1]]), end |-> Round2(Slots[r[2]] + slide_interval),
     label |-> "rally"]

\* The place of a kept run among the kept runs, by time.
Rank(r) == Cardinality({q \in KeptRuns : q[1] <= r[1]})

\* C13: the returned list holds exactly the maximal runs of active slots whose
\* span is at least min_duration, in order of time: a run shorter than
\* min_duration is left out and a run of exactly min_duration is kept, whether
\* an inactive slot or the last slot ends it.
C13_MinDurationFilter ==
    fused =>
        LET kept == KeptRuns
        IN  /\ Len(rallies) = Cardinality(kept)
            /\ \A r \in kept :
                  rallies[Cardinality({q \in kept : q[1] <= r[1]})] = RunSegment(r)

\* C13 witness: a run of exactly min_duration ended by an inactive slot was
\* returned and a later, shorter run reaching the last slot was left out.
C13_Witness ==
    /\ fused
    /\ clips # <<>>
    /\ \E r \in MaximalRuns :
          /\ Span(r) = min_duration
          /\ r[2] < Len(Slots)
          /\ rallies[Rank(r)] = RunSegment(r)
    /\ \E r \in MaximalRuns : Span(r) < min_duration /\ r[2] = Len(Slots)
    /\ Len(rallies) = 1

\* A run of exactly min_duration that reaches the last slot was returned and an
\* earlier, shorter run was left out.
C13_WitnessLastSlot ==
    /\ fused
    /\ clips # <<>>
    /\ \E r \in MaximalRuns :
          /\ Span(r) = min_duration
          /\ r[2] = Len(Slots)
          /\ rallies = <<RunSegment(r)>>
    /\ \E r \in MaximalRuns : Span(r) < min_duration /\ r[2] < Len(Slots)

\* The configuration C15 calls valid.
ValidConfig ==
    /\ min_duration >= 0
    /\ FracGE(min_score, Frac(0, 1))
    /\ FracGE(Frac(1, 1), min_score)

\* C14: every returned segment has start < end, end - start >= min_duration
\* and the label "rally"; the list is sorted by strictly increasing start, and
\* consecutive segments are disjoint and at least slide_interval apart.
C14_SegmentInvariants ==
    (fused /\ ValidConfig) =>
        /\ \A k \in 1..Len(rallies) :
              /\ rallies[k].start < rallies[k].end
              /\ rallies[k].end - rallies[k].start >= min_duration
              /\ rallies[k].label = "rally"
        /\ \A k \in 1..(Len(rallies) - 1) :
              /\ rallies[k].start < rallies[k + 1].start
              /\ rallies[k].end + slide_interval <= rallies[k + 1].start

\* The same of the runs before round(x, 2) is applied to their bounds.
UnroundedSegmentInvariants ==
    fused =>
        /\ Len(rallies) = Cardinality(KeptRuns)
        /\ \A r \in KeptRuns :
              /\ Slots[r[1]] < Slots[r[2]] + slide_interval
              /\ Span(r) >= min_duration
        /\ \A r, q \in KeptRuns :
              r[1] < q[1] => Slots[r[2]] + 2 * slide_interval <= Slots[q[1]]

\* Times that round(x, 2) leaves as they are.
WholeCentiseconds ==
    /\ slide_interval % 10 = 0
    /\ \A k \in 1..Len(clips) : clips[k].start_time % 10 = 0

SegmentInvariantsOnCentiseconds == WholeCentiseconds => C14_SegmentInvariants

\* C15: with a negative min_duration, a negative min_score or a min_score
\* above 1, detect_rallies and convert_vlm_to_rally end with the error
\* InvalidConfig: no segment list is returned and nothing is written.
C15_InvalidConfigRejected ==
    (~ValidConfig /\ pc # "fuse")
        => /\ error = "InvalidConfig"
           /\ rallies = <<>>
           /\ ann_file = <<>>

\* The worked example: clip_duration 6 s, slide_interval 3 s, the windows
\* starting at 0, 3, 6 and 9 s all positive and full-court except the one
\* starting at 6 s, min_score 1/2, and detect_rallies has returned.
WorkedExample ==
    /\ fused
    /\ clip_duration = 6000
    /\ slide_interval = 3000
    /\ FracEq(min_score, Frac(1, 2))
    /\ Len(clips) = 4
    /\ LET cs == SortByStart(clips)
       IN  /\ \A k \in 1..4 : /\ cs[k].start_time = 3000 * (k - 1)
                              /\ cs[k].end_time = 3000 * (k - 1) + 6000
           /\ \A k \in {1, 2, 4} : Positive(cs[k])
           /\ cs[3].in_rally = "false"

\* The raw scores of the last call are these fractions.
RawScoresAre(fs) ==
    /\ Len(locals.raw_scores) = Len(fs)
    /\ \A i \in 1..Len(fs) : FracEq(locals.raw_scores[i], fs[i])

\* The segments of the last call before the duration filter.
Candidates == Merged(locals, slide_interval, 0, min_score)

\* C16 as stated: in the worked example the slots are 0, 3, 6, 9 s with raw
\* scores 1, 1, 1/2, 1, all four are active, and the one candidate segment is
\* [0, 12).
C16_WorkedExampleFourSlots ==
    WorkedExample =>
        /\ Slots = <<0, 3000, 6000, 9000>>
        /\ RawScoresAre(<<Frac(1, 1), Frac(1, 1), Frac(1, 2), Frac(1, 1)>>)
        /\ ActiveSlots = 1..4
        /\ Candidates = <<[start |-> 0, end |-> 12000, label |-> "rally"]>>

\* C16 amended: in the worked example the slots are 0, 3, 6, 9, 12 s with raw
\* scores 1, 1, 1/2, 1/2, 1, all five are active, and the one candidate
\* segment is [0, 15).
C16_WorkedExampleFiveSlots ==
    WorkedExample =>
        /\ Slots = <<0, 3000, 6000, 9000, 12000>>
        /\ RawScoresAre(<<Frac(1, 1), Frac(1, 1), Frac(1, 2), Frac(1, 2), Frac(1, 1)>>)
        /\ ActiveSlots = 1..5
        /\ Candidates = <<[start |-> 0, end |-> 15000, label |-> "rally"]>>

\* C16 witness: the worked example was fused, into the segment [0, 15).
C16_Witness ==
    /\ WorkedExample
    /\ rallies = <<[start |-> 0, end |-> 15000, label |-> "rally"]>>

(***************************************************************************)
(* Properties of the clip files and of interruption                        *)
(***************************************************************************)

\* process_video has left, by return or by an exception.
exited == pc \in {"done", "crashed"}

\* The clip files whose extraction succeeded.
ExtractedFiles == {i \in disk : wstate[i] # "extract_failed"}

AllFilesScopedToBatch ==
    /\ pc = "loop" => disk = {}
    /\ Cardinality(disk) <= batch_size

\* C18: a run interrupted while a batch is being processed lets the requests
\* in flight settle, starts no later batch and returns its judgments instead
\* of raising: no request is cancelled and the run ends by returning.
C18_CancelReturnsPartial ==
    error = "KeyboardInterrupt" =>
        /\ \A i \in DOMAIN wstate : wstate[i] # "cancelled"
        /\ pc # "crashed"

(***************************************************************************)
(* Properties of repeated calls and of the annotation file                 *)
(***************************************************************************)

C20_AnnotationRoundTrip ==
    pc = "read" =>
        /\ DOMAIN ann_read.meta = {"video", "duration"}
        /\ ann_read.meta["video"] = VideoPath
        /\ ann_read.meta["duration"] = duration
        /\ Len(ann_read.results) = Len(rallies)
        /\ \A k \in 1..Len(rallies) :
              /\ DOMAIN ann_read.results[k] = {"start", "end", "label"}
              /\ ann_read.results[k]["start"] = rallies[k].start
              /\ ann_read.results[k]["end"] = rallies[k].end
              /\ ann_read.results[k]["label"] = rallies[k].label

\* C20 witness: a file with two segments was written and read back.
C20_Witness ==
    /\ pc = "read"
    /\ Len(rallies) = 2
    /\ Len(ann_read.results) = 2
    /\ ann_read.results[2]["start"] = rallies[2].start
    /\ ann_read.meta["duration"] = duration

(***************************************************************************)
(* Properties of the slots, the scores and the runs                        *)
(***************************************************************************)

\* A judgment that counts as a positive vote under require_full_court.
Votes(c) == c.in_rally = "true" /\ (require_full_court => c.shot_type = "full_court")

\* The slots covered by no judgment.
Uncovered == {i \in 1..Len(Slots) : Covering(Slots[i]) = {}}

\* C21: the slots of a call are t_min, t_min + slide_interval, ... for all
\* values below t_max; the raw score of a slot is the number of positive votes
\* among the judgments covering it divided by the number of judgments covering
\* it, and 0 for a slot no judgment covers; an empty judgment list yields an
\* empty result.
C21_RawSlotScore ==
    fused =>
        IF clips = <<>>
        THEN rallies = <<>> /\ Slots = <<>>
        ELSE /\ \A i \in 1..Len(Slots) :
                  /\ Slots[i] = t_min + (i - 1) * slide_interval
                  /\ Slots[i] < t_max
             /\ t_min + Len(Slots) * slide_interval >= t_max
             /\ Len(locals.raw_scores) = Len(Slots)
             /\ \A i \in 1..Len(Slots) :
                  LET covering == Covering(Slots[i])
                      positive == {k \in covering : Votes(clips[k])}
                      score == locals.raw_scores[i]
                  IN  IF covering = {} THEN FracEq(score, Frac(0, 1))
                      ELSE FracEq(score, Frac(Cardinality(positive), Cardinality(covering)))

\* C21 witness: a call with require_full_court set left a slot covered by no
\* judgment with the score 0, next to a slot scored 1 and a slot whose only
\* judgment is a rally seen in a close-up, scored 0.
C21_Witness ==
    /\ fused
    /\ require_full_court
    /\ \E i \in Uncovered : FracEq(locals.raw_scores[i], Frac(0, 1))
    /\ \E i \in 1..Len(Slots) : FracEq(locals.raw_scores[i], Frac(1, 1))
    /\ \E i \in 1..Len(Slots) :
          /\ Covering(Slots[i]) # {}
          /\ \A k \in Covering(Slots[i]) :
                clips[k].in_rally = "true" /\ clips[k].shot_type = "close_up"
          /\ FracEq(locals.raw_scores[i], Frac(0, 1))

\* A slot covered by two judgments of which one votes positive was scored 1/2.
C21_WitnessHalf ==
    /\ fused
    /\ \E i \in 1..Len(Slots) :
          /\ Cardinality(Covering(Slots[i])) = 2
          /\ FracEq(locals.raw_scores[i], Frac(1, 2))

\* C21 witness: no slot and no segment for an empty judgment list.
C21_WitnessEmpty == fused /\ clips = <<>> /\ rallies = <<>>

\* The mean of two and of three scores.
Mean2(a, b) == LET t == FracAdd(a, b) IN Frac(t.num, 2 * t.den)

Mean3(a, b, c) == LET t == FracAdd(FracAdd(a, b), c) IN Frac(t.num, 3 * t.den)

\* C22: the smoothed score of an interior slot is the mean of the raw scores
\* of the slot and its two neighbours; with at least two slots, that of the
\* first slot is the mean of the first two raw scores and that of the last
\* slot the mean of the last two; there is one smoothed score per slot.
C22_CenteredSmoothing ==
    fused =>
        LET raw == locals.raw_scores
            n == Len(raw)
        IN  /\ Len(locals.smoothed) = n
            /\ \A i \in 2..(n - 1) :
                  FracEq(locals.smoothed[i], Mean3(raw[i - 1], raw[i], raw[i + 1]))
            /\ n >= 2 =>
                  /\ FracEq(locals.smoothed[1], Mean2(raw[1], raw[2]))
                  /\ FracEq(locals.smoothed[n], Mean2(raw[n - 1], raw[n]))

\* C22 witness: a call on at least four slots whose first, last and one
\* interior smoothed score all differ from the raw score of their slot, the
\* interior one also from the mean of either pair of adjacent slots.
C22_Witness ==
    /\ fused
    /\ LET raw == locals.raw_scores
           n == Len(raw)
       IN  /\ n >= 4
           /\ ~FracEq(locals.smoothed[1], raw[1])
           /\ ~FracEq(locals.smoothed[n], raw[n])
           /\ \E i \in 2..(n - 1) :
                 /\ ~FracEq(locals.smoothed[i], raw[i])
                 /\ ~FracEq(locals.smoothed[i], Mean2(raw[i - 1], raw[i]))
                 /\ ~FracEq(locals.smoothed[i], Mean2(raw[i], raw[i + 1]))

\* The runs the merging loop of the last call closed: its pairs
\* (current_start, current_end), before the duration filter and round(x, 2).
CandidateRuns == Runs(locals, slide_interval, min_duration, min_score)

\* The slots whose time lies in a candidate.
SlotsIn(c) == {i \in 1..Len(Slots) : c.start <= Slots[i] /\ Slots[i] < c.end}

\* C23: with the slots whose smoothed score is >= min_score called active,
\* the merging loop closes exactly one candidate per maximal run of
\* consecutive active slots, in order of time, from the time of the run's
\* first slot to the time of its last slot plus slide_interval; no candidate
\* holds an inactive slot; the returned segments are the candidates that pass
\* the duration filter.
C23_ThresholdAndMerge ==
    fused =>
        LET runs == MaximalRuns
            candidates == CandidateRuns
            active == ActiveSlots
            kept == SelectSeq(candidates, LAMBDA c : c.end - c.start >= min_duration)
        IN  /\ Len(candidates) = Cardinality(runs)
            /\ \A r \in runs :
                  candidates[Cardinality({q \in runs : q[1] <= r[1]})] =
                      [start |-> Slots[r[1]], end |-> Slots[r[2]] + slide_interval]
            /\ \A k \in 1..Len(candidates) : SlotsIn(candidates[k]) \subseteq active
            /\ rallies = [k \in 1..Len(kept) |-> Rally(kept[k].start, kept[k].end)]

\* C23 witness: two candidates with an inactive slot between them, one of
\* them holding a slot whose smoothed score equals min_score.
C23_Witness ==
    /\ fused
    /\ Len(CandidateRuns) = 2
    /\ \E i \in 1..Len(Slots) :
          /\ Slots[i] >= CandidateRuns[1].end
          /\ Slots[i] < CandidateRuns[2].start
          /\ i \notin ActiveSlots
    /\ \E i \in SlotsIn(CandidateRuns[1]) : FracEq(locals.smoothed[i], min_score)

\* Exactly one judgment of the list is positive and full-court, the others
\* are negative; PositiveAt(k) places it in the list sorted by start.
PositiveAt(k) ==
    LET cs == SortByStart(clips)
    IN  /\ k \in 1..Len(cs)
        /\ Positive(cs[k])
        /\ \A i \in 1..Len(cs) : i # k => cs[i].in_rally = "false"

\* The slots covered by the k-th judgment of the sorted list.
SlotsOf(k) ==
    LET c == SortByStart(clips)[k]
    IN  {i \in 1..Len(Slots) : c.start_time <= Slots[i] /\ Slots[i] < c.end_time}

\* The slots of the k-th judgment stay below 1/2 and no segment is returned.
Suppressed(k) ==
    /\ \A i \in SlotsOf(k) : ~FracGE(locals.smoothed[i], Frac(1, 2))
    /\ ActiveSlots = {}
    /\ rallies = <<>>

\* C24: with clip_duration = 2 * slide_interval, no window missing and
\* min_score = 1/2, a single positive judgment among at least two negative
\* ones, wherever it sits (the first and the last window included), leaves its
\* slots with a smoothed score below 1/2: no slot is active and no segment is
\* returned.
C24_IsolatedFalsePositive ==
    (fused /\ Len(clips) >= 3) => \A k \in 1..Len(clips) : PositiveAt(k) => Suppressed(k)

\* The same of a single positive judgment that is neither the first nor the
\* last window.
InteriorFalsePositiveSuppressed ==
    fused => \A k \in 2..(Len(clips) - 1) : PositiveAt(k) => Suppressed(k)

\* A single positive judgment on the first or on the last window of at least
\* three is returned as a segment.
EdgeFalsePositiveReturned ==
    (fused /\ Len(clips) >= 3 /\ min_duration <= 2 * slide_interval
           /\ (PositiveAt(1) \/ PositiveAt(Len(clips))))
        => Len(rallies) = 1

(***************************************************************************)
(* Properties of the recorded judgments                                    *)
(***************************************************************************)

\* The parsed object of the response of window i.
Parsed(i) == extract_json_from_response(response[i])

\* The recorded judgments of windows whose response parsed to an object.
RecordedObjects ==
    {k \in 1..Len(results) :
        /\ response[results_idx[k]].status = "ok"
        /\ Parsed(results_idx[k]).type = "dict"}

Recognised(value, names, members) == value \in names \cup members

\* The parts of C25 on confidence and has_volleyball.
ConfidenceAndVerdictDefaults ==
    \A k \in RecordedObjects :
        LET obj == Parsed(results_idx[k])
        IN  /\ ~Recognised(obj.confidence, {"high", "medium", "low"},
                           {"Confidence.HIGH", "Confidence.MEDIUM", "Confidence.LOW"})
                  => results[k].confidence = "Confidence.LOW"
            /\ obj.has_volleyball = "missing" => results[k].has_volleyball = FALSE

\* C25: a recorded judgment whose parsed response has a missing or
\* unrecognised confidence has the confidence low, one whose response has a
\* missing or unrecognised shot_type has the shot type close_up, and one
\* whose response has no has_volleyball is negative.
C25_ClassifierDefaults ==
    /\ ConfidenceAndVerdictDefaults
    /\ \A k \in RecordedObjects :
          LET obj == Parsed(results_idx[k])
          IN  ~Recognised(obj.shot_type, {"full_court", "close_up"},
                          {"ShotType.FULL_COURT", "ShotType.CLOSE_UP"})
                  => results[k].shot_type = "ShotType.CLOSE_UP"

(***************************************************************************)
(* Properties of the accumulated list and of the attempts                  *)
(***************************************************************************)

\* Each list of a sequence of lists is a prefix of the next.
Chain(lists) == \A j \in 1..(Len(lists) - 1) : IsPrefix(lists[j], lists[j + 1])

\* C26: no step of a run removes, replaces or moves a recorded judgment: the
\* accumulated list before a step is a prefix of the list after it, the lists
\* handed to save_results are each a prefix of the next, and a checkpoint
\* that has been written completely holds one of these lists.
C26_AppendOnly ==
    [][/\ IsPrefix(results, results')
       /\ IsPrefix(results_idx, results_idx')
       /\ IsPrefix(save_calls, save_calls')
       /\ Chain(save_calls')
       /\ file'.state = "complete"
            => \E j \in 1..Len(save_calls') : file'.data = Serialize(save_calls'[j])]_vars

\* C26 witness: a second checkpoint was written completely, one judgment
\* longer than the first, which was not empty.
C26_Witness ==
    /\ Len(save_calls) = 2
    /\ save_calls[1] # <<>>
    /\ Len(save_calls[2]) > Len(save_calls[1])
    /\ IsPrefix(save_calls[1], results)
    /\ file = [state |-> "complete", data |-> Serialize(save_calls[2])]

\* The steps a window may take: extraction from pending, a request from
\* extracted, an outcome from in flight.
Advances(from, to) ==
    \/ from = "pending" /\ to \in {"extracted", "extract_failed"}
    \/ from = "extracted" /\ to = "inflight"
    \/ from = "inflight" /\ to \in {"settled", "cancelled"}

NoDuplicates(s) == \A j, k \in 1..Len(s) : s[j] = s[k] => j = k

\* The windows whose request raised (timeout, transport error) and whose
\* batch has been collected.
TimedOut == {i \in DOMAIN wstate : response[i].status = "error" /\ Collected(i)}

\* What holds of the attempts in every state.
AttemptedOnce ==
    /\ NoDuplicates(results_idx)
    /\ NoDuplicates([k \in 1..Len(batch_clips) |-> batch_clips[k].idx])
    /\ \A k \in 1..Len(results_idx) :
          /\ wstate[results_idx[k]] = "settled"
          /\ response[results_idx[k]].status = "ok"
    /\ \A i \in TimedOut : i \notin Range(results_idx)
    /\ \A i \in DOMAIN wstate : (response[i].status # "none") <=> (wstate[i] = "settled")
    /\ pc = "done" => \A i \in DOMAIN wstate : wstate[i] \in {"settled", "extract_failed"}
    /\ pc = "crashed" => error \in {"AttributeError", "OSError", "KeyboardInterrupt"}
    /\ error = "AttributeError" =>
          \E i \in DOMAIN wstate :
              response[i].status = "ok" /\ TaskResult(i).type # "dict"

\* C27: every planned window is attempted once: a window changes state only
\* by being extracted while pending, by having its request issued once
\* extracted, and by that request settling or being cancelled, so nothing is
\* extracted or requested twice and nothing is retried after a failure or a
\* timeout; at most one judgment is recorded per window, and only for a
\* request that settled with a response; a window whose request timed out has
\* no judgment, the run is never left because of it, and a run that returns
\* has attempted every window.
C27_AttemptedOnce ==
    /\ []AttemptedOnce
    /\ [][\A i \in DOMAIN wstate :
             (i \in DOMAIN wstate' /\ wstate'[i] # wstate[i])
                 => Advances(wstate[i], wstate'[i])]_vars

\* C27 witness: a run returned after a window failed extraction, a later
\* window's request timed out and a window after that was judged.
C27_Witness ==
    /\ pc = "done"
    /\ \E i, j, k \in DOMAIN wstate :
          /\ i < j /\ j < k
          /\ wstate[i] = "extract_failed"
          /\ response[j].status = "error"
          /\ j \notin Range(results_idx)
          /\ k \in Range(results_idx)

\* No two recorded judgments have the same start and end.  Not an invariant:
\* the planner can list the same window twice (see C8), and each entry of the
\* plan is attempted.
OneJudgmentPerInterval ==
    \A j, k \in 1..Len(results) :
        (results[j].start_time = results[k].start_time
         /\ results[j].end_time = results[k].end_time) => j = k

(***************************************************************************)
(* Properties of the plan's coverage                                       *)
(***************************************************************************)

\* The parameters C28 speaks of.
CoverageInput == total_duration >= clip_duration /\ slide_interval <= clip_duration

\* The number of regular windows and the end of the last one.
RegularCount ==
    Cardinality({k \in 1..total_duration :
                    (k - 1) * slide_interval + clip_duration <= total_duration})

LastRegularEnd == (RegularCount - 1) * slide_interval + clip_duration

\* Every second of the video lies in a planned window.
TrailingVideoCovered ==
    (planned /\ CoverageInput) =>
        \A t \in 0..(total_duration - 1) :
            \E k \in 1..Len(clip_specs) :
                clip_specs[k].start_time <= t /\ t < clip_specs[k].end_time

\* No final window is planned when the regular windows reach total_duration.
FinalWindowOnlyWhenNeeded ==
    (planned /\ CoverageInput /\ LastRegularEnd = total_duration) =>
        Len(clip_specs) = RegularCount

\* C28: for total_duration >= clip_duration and slide_interval <=
\* clip_duration, the plan holds a final window ending at total_duration
\* whenever the last regular window ends before total_duration and none when
\* the regular windows reach total_duration, so the planned windows cover the
\* whole of [0, total_duration).
C28_PlanCoversVideo ==
    (planned /\ CoverageInput) =>
        /\ LastRegularEnd < total_duration =>
              /\ Len(clip_specs) = RegularCount + 1
              /\ clip_specs[Len(clip_specs)].end_time = total_duration
        /\ FinalWindowOnlyWhenNeeded
        /\ TrailingVideoCovered

(***************************************************************************)
(* Properties of the segments' place in the judged span                    *)
(***************************************************************************)

\* C29: every returned segment starts at or after the least window start and
\* ends at or before the greatest window end of the judgments.
C29_SegmentsInsideSpan ==
    (fused /\ clips # <<>>) =>
        \A k \in 1..Len(rallies) :
            /\ rallies[k].start >= t_min
            /\ rallies[k].end <= t_max

\* The starts, on times that round(x, 2) leaves as they are.
SegmentStartsInsideSpan ==
    (fused /\ clips # <<>> /\ WholeCentiseconds) =>
        \A k \in 1..Len(rallies) : rallies[k].start >= t_min

\* The ends, on times that round(x, 2) leaves as they are.
SegmentEndsInsideSpan ==
    (fused /\ clips # <<>> /\ WholeCentiseconds) =>
        \A k \in 1..Len(rallies) : rallies[k].end <= t_max

\* The ends, when the judged span is a whole multiple of slide_interval.
SegmentEndsInsideAlignedSpan ==
    (fused /\ clips # <<>> /\ WholeCentiseconds
           /\ (t_max - t_min) % slide_interval = 0) =>
        \A k \in 1..Len(rallies) : rallies[k].end <= t_max

(***************************************************************************)
(* Properties of the records handed from the run to the fusion             *)
(***************************************************************************)

\* A finished run recorded judgments, all of them positive and full-court,
\* saved them, and detect_rallies has been called on the saved records.
AllPositiveRunFused ==
    /\ pc = "records_fused"
    /\ results # <<>>
    /\ file.data = Serialize(results)
    /\ \A k \in 1..Len(results) :
          results[k].has_volleyball /\ results[k].shot_type = "ShotType.FULL_COURT"

\* C30: when every judgment a run recorded and saved is positive and
\* full-court, detect_rallies on the saved records counts each of them as a
\* positive vote: every slot a record covers has the raw score 1, and without
\* a minimum duration the segment list is not empty.
C30_RecordsReadAsWritten ==
    AllPositiveRunFused =>
        /\ \A i \in 1..Len(Slots) :
              Covering(Slots[i]) # {} => FracEq(locals.raw_scores[i], Frac(1, 1))
        /\ min_duration = 0 => rallies # <<>>

\* The same records, with the verdict taken from has_volleyball, fuse to a
\* segment list that is not empty.
RecordsFuseByVerdict ==
    AllPositiveRunFused =>
        detect_rallies([k \in 1..Len(file.data) |-> RecordAsClipByVerdict(file.data[k])],
                       clip_duration * 1000, slide_interval * 1000, 0, Frac(1, 2), TRUE)
            # <<>>

\* No record of a checkpoint is ever counted as a positive vote.
RecordsNeverCounted ==
    pc = "records_fused" =>
        /\ rallies = <<>>
        /\ \A i \in 1..Len(locals.raw_scores) : FracEq(locals.raw_scores[i], Frac(0, 1))

=============================================================================
